---- MODULE Spec2Model ----
(***************************************************************************)
(* DCI tooling: the synthetic trace generator (generate_traces.py) and the *)
(* DCI result validator (validate_rmt_dci.py).                             *)
(*                                                                         *)
(* Numbers.  random.uniform(0, total_frequency) is a continuous draw; it   *)
(* is modelled on a grid of DrawsPerUnit points per unit of weight, so a   *)
(* draw rv stands for the value rv / DrawsPerUnit (every cumulative        *)
(* boundary and points strictly between boundaries are on the grid).  DCI  *)
(* and MCI values of the CSV tables are integers in hundredths (80 is      *)
(* 0.80).  An expected DCI is the exact fraction num / den.                *)
(***************************************************************************)
EXTENDS Integers, Sequences, FiniteSets, TLC

\* ------------------------------------------------------------------ bounds

\* largest requested trace count explored on every template
MaxTraces == 3
\* largest requested trace count explored on the one-pattern template
LongRun == 11
\* grid points per unit of weight for the uniform draw
DrawsPerUnit == 2
\* largest number of call patterns of a generated template
MaxCalls == 3
\* largest number of rows of a generated DCI table
MaxRows == 2

\* ------------------------------------------------------------ pattern data

Pattern(caller, callee, freq) == [caller |-> caller, callee |-> callee, freq |-> freq]

\* create_common_patterns(): name -> services and calls
CommonPatterns ==
  [ simple_chain |->
      [ services |-> <<"frontend", "api-gateway", "user-service", "database">>,
        calls |-> << Pattern("frontend", "api-gateway", 10),
                     Pattern("api-gateway", "user-service", 8),
                     Pattern("user-service", "database", 6) >> ],
    ecommerce |->
      [ services |-> <<"web", "api", "user", "order", "payment", "inventory", "notification">>,
        calls |-> << Pattern("web", "api", 15),
                     Pattern("api", "user", 8),
                     Pattern("api", "order", 6),
                     Pattern("api", "payment", 4),
                     Pattern("order", "inventory", 3),
                     Pattern("order", "payment", 2),
                     Pattern("payment", "notification", 1) >> ],
    microservice_mesh |->
      [ services |-> <<"gateway", "auth", "user", "product", "order", "payment", "shipping", "analytics">>,
        calls |-> << Pattern("gateway", "auth", 12),
                     Pattern("gateway", "user", 10),
                     Pattern("gateway", "product", 8),
                     Pattern("gateway", "order", 6),
                     Pattern("user", "auth", 4),
                     Pattern("order", "payment", 3),
                     Pattern("order", "shipping", 2),
                     Pattern("order", "analytics", 1),
                     Pattern("payment", "analytics", 1) >> ],
    event_driven |->
      [ services |-> <<"producer", "event-bus", "consumer1", "consumer2", "consumer3", "database">>,
        calls |-> << Pattern("producer", "event-bus", 20),
                     Pattern("event-bus", "consumer1", 8),
                     Pattern("event-bus", "consumer2", 6),
                     Pattern("event-bus", "consumer3", 4),
                     Pattern("consumer1", "database", 3),
                     Pattern("consumer2", "database", 2) >> ] ]

PatternNames == DOMAIN CommonPatterns

Range(s) == { s[i] : i \in DOMAIN s }

\* ------------------------------------------------------------- table data

\* the columns validate_rmt_dci reads of the DCI table
AllColumns == {"Service", "DCI", "Status"}

\* a DataFrame: its columns and its rows
Table(cols, rows) == [kind |-> "table", cols |-> cols, rows |-> rows]

\* what is on disk where no readable table is; None
NoTable(kind) == [kind |-> kind, cols |-> {}, rows |-> <<>>]

\* ------------------------------------------------- generate_microservice_traces

\* sum(freq for _, _, freq in call_patterns)
RECURSIVE SumFreq(_)
SumFreq(cp) == IF cp = <<>> THEN 0 ELSE cp[1].freq + SumFreq(Tail(cp))

\* the values random.uniform(0, total) can return, on the grid
Draws(total) == 0 .. (DrawsPerUnit * total)

\* The inner for loop.  i is the pattern the loop is about to bind, cumulative
\* the running sum before it, rv the draw on the grid.  The result is the
\* index of the pattern that caller, callee are bound to when the loop ends:
\* the one at which it broke, else the last one bound, 0 when none was bound.
RECURSIVE WalkPatterns(_, _, _, _)
\* the loop with the break test rand_val < cumulative
WalkPatternsStrict(cp, i, cumulative, rv) ==
  IF i > Len(cp) THEN Len(cp)
  ELSE IF rv < DrawsPerUnit * (cumulative + cp[i].freq) THEN i
       ELSE WalkPatterns(cp, i + 1, cumulative + cp[i].freq, rv)

WalkPatterns(cp, i, cumulative, rv) ==
  IF i > Len(cp) THEN Len(cp)
  ELSE IF rv <= DrawsPerUnit * (cumulative + cp[i].freq) THEN i
       ELSE WalkPatterns(cp, i + 1, cumulative + cp[i].freq, rv)

DigitChars == <<"0", "1", "2", "3", "4", "5", "6", "7", "8", "9">>

\* str(n) for n >= 0: the decimal digits, most significant first
RECURSIVE Str(_)
Str(n) == IF n < 10 THEN <<DigitChars[n + 1]>>
          ELSE Str(n \div 10) \o <<DigitChars[(n % 10) + 1]>>

\* the trace dict of one iteration
MakeTrace(tid, p) ==
  [ traceId |-> Str(tid),
    id |-> Str(tid),
    localEndpoint |-> [serviceName |-> p.caller],
    remoteEndpoint |-> [serviceName |-> p.callee] ]

\* identifiers counted from 0
FirstTraceIdZero == 1 - 1

\* trace_id = 1
FirstTraceId == 1

\* trace_id += 1
NextTraceId(tid) == tid + 1

\* a loop that runs one iteration short
RangeLenShort(n) == IF n > 1 THEN n - 1 ELSE 0

\* len(range(num_traces))
RangeLen(n) == IF n > 0 THEN n ELSE 0

VARIABLES
  prog,             \* the entry point this run started at
  pc,               \* position in the run
  argv,             \* main: sys.argv[1:]
  dci_src,          \* validate: what is on disk under the DCI file name
  mci_src,          \* validate: what is on disk under the MCI file name
  services,         \* services of the template in use
  calls,            \* call_patterns of the template in use
  num_traces,       \* requested number of traces
  total_frequency,  \* generate_microservice_traces: total_frequency
  rand_val,         \* generate_microservice_traces: rand_val of the last iteration (-1: none yet)
  traces,           \* generate_microservice_traces: traces
  trace_id,         \* generate_microservice_traces: trace_id
  expected,         \* generate_traces.main: per service, the expected DCI line
  dci_df,           \* validate: the loaded DCI table, "None" when not loaded
  status_counts,    \* analyze_dci_results: status_counts
  high_coupling,    \* analyze_dci_results: high_coupling
  isolated,         \* analyze_dci_results: isolated
  merged,           \* compare_with_mci: its return value, "None" or the merged rows
  files,            \* the output files written so far
  report,           \* the kinds of message printed so far
  error,            \* the exception that ended the run, "none" otherwise
  exit_code         \* the exit status of the process, -1 while it runs

inVars == <<argv, dci_src, mci_src>>
tmplVars == <<services, calls, num_traces>>
synthVars == <<total_frequency, rand_val, traces, trace_id>>
anVars == <<status_counts, high_coupling, isolated>>
outVars == <<files, report, exit_code>>

vars == <<prog, pc, argv, dci_src, mci_src, services, calls, num_traces,
          total_frequency, rand_val, traces, trace_id, expected, dci_df,
          status_counts, high_coupling, isolated, merged, files, report,
          error, exit_code>>

NoArgs == <<>>

\* compare_with_mci returned None
NoFrame == [kind |-> "None", rows |-> <<>>]

\* the variables a run has not touched yet
Untouched ==
  /\ total_frequency = 0
  /\ rand_val = -1
  /\ traces = <<>>
  /\ trace_id = 0
  /\ expected = <<>>
  /\ status_counts = <<>>
  /\ high_coupling = <<>>
  /\ isolated = <<>>
  /\ merged = NoFrame
  /\ files = {}
  /\ report = {}
  /\ error = "none"
  /\ exit_code = -1

\* -------------------------------------------- inputs of the synthesizer runs

OnePattern == [ services |-> <<"a", "b">>, calls |-> << Pattern("a", "b", 1) >> ]

SynthTemplates ==
  { [ services |-> <<"a">>, calls |-> <<>> ],
    [ services |-> <<"a", "b", "c">>, calls |-> <<>> ],
    OnePattern,
    [ services |-> <<"a", "b", "c">>,
      calls |-> << Pattern("a", "b", 2), Pattern("b", "c", 1) >> ],
    [ services |-> <<"a", "b", "c">>,
      calls |-> << Pattern("a", "b", 1), Pattern("a", "c", 3), Pattern("c", "c", 1) >> ],
    CommonPatterns.simple_chain }

\* generate_microservice_traces(services, call_patterns, num_traces) is entered
InitSynth ==
  /\ prog = "generate_microservice_traces"
  /\ pc = "call"
  /\ \E t \in SynthTemplates :
       /\ services = t.services
       /\ calls = t.calls
       /\ num_traces \in 0 .. (IF t = OnePattern THEN LongRun ELSE MaxTraces)
  /\ argv = NoArgs
  /\ dci_src = NoTable("missing")
  /\ mci_src = NoTable("missing")
  /\ dci_df = NoTable("None")
  /\ Untouched

\* lines 26-30: traces = [], trace_id = 1, total_frequency = sum(...)
SynthEnter ==
  /\ pc = "call"
  /\ traces' = <<>>
  /\ trace_id' = FirstTraceId
  /\ total_frequency' = SumFreq(calls)
  /\ pc' = "loop"
  /\ UNCHANGED <<prog, inVars, tmplVars, rand_val, expected, dci_df, anVars, merged, outVars, error>>

\* lines 32-50: one iteration of `for _ in range(num_traces)`
SynthIterate ==
  /\ pc = "loop"
  /\ Len(traces) < RangeLen(num_traces)
  /\ \E rv \in Draws(total_frequency) :
       LET sel == WalkPatterns(calls, 1, 0, rv) IN
         /\ rand_val' = rv
         /\ IF sel = 0
              THEN \* caller is read at line 46 and was never bound
                   /\ error' = "UnboundLocalError"
                   /\ pc' = IF prog = "generate_traces.main" THEN "exited" ELSE "raised"
                   /\ exit_code' = IF prog = "generate_traces.main" THEN 1 ELSE exit_code
                   /\ UNCHANGED <<traces, trace_id>>
              ELSE /\ traces' = Append(traces, MakeTrace(trace_id, calls[sel]))
                   /\ trace_id' = NextTraceId(trace_id)
                   /\ UNCHANGED <<pc, error, exit_code>>
  /\ UNCHANGED <<prog, inVars, tmplVars, total_frequency, expected, dci_df, anVars,
                 merged, files, report>>

\* line 52: return traces
SynthReturn ==
  /\ pc = "loop"
  /\ Len(traces) >= RangeLen(num_traces)
  /\ pc' = IF prog = "generate_traces.main" THEN "write" ELSE "returned"
  /\ UNCHANGED <<prog, inVars, tmplVars, synthVars, expected, dci_df, anVars,
                 merged, outVars, error>>

NextSynth == SynthEnter \/ SynthIterate \/ SynthReturn

SpecSynth == InitSynth /\ [][NextSynth]_vars

\* --------------------------------------- expected DCI (generate_traces.main)

\* lines 148-153: service_calls[service] = set(), then one add per call pattern
RECURSIVE ServiceCalls(_, _)
ServiceCalls(sc, cp) ==
  IF cp = <<>> THEN sc
  ELSE ServiceCalls([sc EXCEPT ![cp[1].caller] = @ \cup {cp[1].callee}], Tail(cp))

\* line 153 raises KeyError when a caller is no key of service_calls
CallerKeyError(svcs, cp) == \E i \in DOMAIN cp : cp[i].caller \notin Range(svcs)

\* counting the edges of a caller instead of its distinct callees
ActualCallsPerEdge(svcs, cp, s) ==
  Cardinality({ i \in DOMAIN cp : cp[i].caller = s })

\* line 160: len(service_calls[service])
ActualCalls(svcs, cp, s) ==
  Cardinality(ServiceCalls([x \in Range(svcs) |-> {}], cp)[s])

\* line 161: dci = actual_calls / max_possible if max_possible > 0 else 0
DciOf(actual, max_possible) ==
  IF max_possible > 0 THEN [num |-> actual, den |-> max_possible]
  ELSE [num |-> 0, den |-> 1]

\* the chain with High only above 0.7
StatusOfStrictHigh(d) ==
  IF 10 * d.num > 7 * d.den THEN "High"
  ELSE IF 10 * d.num >= 4 * d.den THEN "Moderate"
  ELSE IF d.num > 0 THEN "Low"
  ELSE "No"

\* line 162: the status of a dci value, an exact fraction with den > 0.  The
\* float quotient actual_calls / max_possible compares with the literals 0.7
\* and 0.4 as the exact fraction does: a quotient equal to 7/10 or 4/10 rounds
\* to the literal itself, any other is further away than the rounding error.
StatusOf(d) ==
  IF 10 * d.num >= 7 * d.den THEN "High"
  ELSE IF 10 * d.num >= 4 * d.den THEN "Moderate"
  ELSE IF d.num > 0 THEN "Low"
  ELSE "No"

\* lines 155-163: the line printed for each service
ExpectedDci(svcs, cp) ==
  [ s \in Range(svcs) |->
      LET actual == ActualCalls(svcs, cp, s)
          dci == DciOf(actual, Len(svcs) - 1)
      IN [actual_calls |-> actual, dci |-> dci, status |-> StatusOf(dci)] ]

\* ------------------------------------------------------ analyze_dci_results

\* the statuses that occur, each counted once
ValueCountsUnique(rows) ==
  [ st \in { rows[i].Status : i \in DOMAIN rows } |-> 1 ]

\* line 29: df['Status'].value_counts()
ValueCounts(rows) ==
  [ st \in { rows[i].Status : i \in DOMAIN rows } |->
      Cardinality({ i \in DOMAIN rows : rows[i].Status = st }) ]

IsHighRow(r) == r.DCI >= 70

IsIsolatedRow(r) == r.DCI = 0

\* line 42: df[df['DCI'] >= 0.7]
HighCoupling(rows) == SelectSeq(rows, IsHighRow)

\* line 49: df[df['DCI'] == 0.0]
Isolated(rows) == SelectSeq(rows, IsIsolatedRow)

\* analyze_dci_results(df), df a loaded table that has its DCI column
Analyze ==
  /\ pc = "analyze"
  /\ IF "Status" \notin dci_df.cols
       THEN \* line 29: KeyError, not caught
            /\ error' = "KeyError"
            /\ pc' = IF prog = "validate_rmt_dci.main" THEN "exited" ELSE "raised"
            /\ exit_code' = IF prog = "validate_rmt_dci.main" THEN 1 ELSE exit_code
            /\ UNCHANGED anVars
       ELSE /\ status_counts' = ValueCounts(dci_df.rows)
            /\ high_coupling' = HighCoupling(dci_df.rows)
            /\ isolated' = Isolated(dci_df.rows)
            /\ pc' = IF prog # "validate_rmt_dci.main" THEN "returned"
                     ELSE IF Len(argv) > 1 THEN "compare" ELSE "template"
            /\ UNCHANGED <<error, exit_code>>
  /\ UNCHANGED <<prog, inVars, tmplVars, synthVars, expected, dci_df, merged,
                 files, report>>

\* -------------------------------------- inputs of the estimator and analyzer

ServiceLists == { <<"a">>, <<"a", "b">>, <<"a", "b", "c">> }

\* the weights a pattern of a generated template is given
Weights == {1, 2}

PatternsOver(svcs) ==
  { Pattern(c, d, 1) : c \in Range(svcs), d \in Range(svcs) }

SeqsUpTo(S, n) == UNION { [1 .. k -> S] : k \in 0 .. n }

CoreTemplates ==
  { [services |-> svcs, calls |-> cp] :
      svcs \in ServiceLists, cp \in SeqsUpTo(PatternsOver(<<"a", "b", "c">>), MaxCalls) }

ValidTemplate(t) ==
  \A i \in DOMAIN t.calls :
    t.calls[i].caller \in Range(t.services) /\ t.calls[i].callee \in Range(t.services)

Statuses == {"High", "Moderate", "Low", "No"}

\* DCI values around the boundaries of the report, in hundredths
BoundaryDcis == {0, 1, 39, 40, 69, 70, 100}

RowNames == <<"svcA", "svcB", "svcC", "svcD">>

CoreTables ==
  UNION { { [ i \in 1 .. k |-> [Service |-> RowNames[i], DCI |-> f[i].dci, Status |-> f[i].st] ] :
              f \in [1 .. k -> [dci : BoundaryDcis, st : Statuses]] } :
          k \in 0 .. MaxRows }

\* templates in which a service sits exactly on a status boundary:
\* s1 calls 2 of 5 (0.4) and 7 of 10 (0.7) other services
StarNames == <<"s1", "s2", "s3", "s4", "s5", "s6", "s7", "s8", "s9", "s10", "s11">>

Star(n, k) ==
  [ services |-> SubSeq(StarNames, 1, n),
    calls |-> [ i \in 1 .. k |-> Pattern(StarNames[1], StarNames[i + 1], 1) ] ]

BoundaryTemplates == { Star(6, 2), Star(11, 7), Star(11, 6) }

\* the expected-DCI block is run on a template
InitEstimator ==
  /\ prog = "expected_dci"
  /\ pc = "estimate"
  /\ \E t \in { x \in CoreTemplates : ValidTemplate(x) }
              \cup { CommonPatterns[n] : n \in PatternNames }
              \cup BoundaryTemplates :
       /\ services = t.services
       /\ calls = t.calls
  /\ num_traces = 0
  /\ argv = NoArgs
  /\ dci_src = NoTable("missing")
  /\ mci_src = NoTable("missing")
  /\ dci_df = NoTable("None")
  /\ Untouched

\* analyze_dci_results(df) is entered
InitAnalyzer ==
  /\ prog = "analyze_dci_results"
  /\ pc = "analyze"
  /\ services = <<>>
  /\ calls = <<>>
  /\ num_traces = 0
  /\ argv = NoArgs
  /\ dci_src = NoTable("missing")
  /\ mci_src = NoTable("missing")
  /\ \E rows \in CoreTables : dci_df = Table(AllColumns, rows)
  /\ Untouched

\* lines 145-163 of generate_traces.main
Estimate ==
  /\ pc = "estimate"
  /\ IF CallerKeyError(services, calls)
       THEN /\ error' = "KeyError"
            /\ pc' = IF prog = "generate_traces.main" THEN "exited" ELSE "raised"
            /\ exit_code' = IF prog = "generate_traces.main" THEN 1 ELSE exit_code
            /\ UNCHANGED expected
       ELSE /\ expected' = ExpectedDci(services, calls)
            /\ pc' = IF prog = "generate_traces.main" THEN "exited" ELSE "estimated"
            /\ exit_code' = IF prog = "generate_traces.main" THEN 0 ELSE exit_code
            /\ UNCHANGED error
  /\ UNCHANGED <<prog, inVars, tmplVars, synthVars, dci_df, anVars, merged,
                 files, report>>

InitCore == InitEstimator \/ InitAnalyzer

NextCore == Estimate \/ Analyze

SpecCore == InitCore /\ [][NextCore]_vars

\* ===================================================== generate_traces.main

\* largest trace count given on the command line
MainTraces == 1

\* line 120: the count used when none is given
DefaultNumTraces == 100

\* int(text) of a command line argument, "ValueError" when it is no integer
RECURSIVE DigitsValue(_)
DigitsValue(text) ==
  IF text = <<>> THEN 0
  ELSE 10 * DigitsValue(SubSeq(text, 1, Len(text) - 1))
       + ((CHOOSE k \in DOMAIN DigitChars : DigitChars[k] = text[Len(text)]) - 1)

AllDigits(text) == text # <<>> /\ \A k \in DOMAIN text : text[k] \in Range(DigitChars)

IntOk(n) == [ok |-> TRUE, value |-> n]

PyInt(text) ==
  IF AllDigits(text) THEN IntOk(DigitsValue(text))
  ELSE IF text # <<>> /\ text[1] = "-" /\ AllDigits(Tail(text))
         THEN IntOk(0 - DigitsValue(Tail(text)))
  ELSE [ok |-> FALSE, value |-> 0]

\* line 139: output_file
TraceFile(pattern_name) == <<"traces_", pattern_name, ".json">>

\* lines 110-136: from the argument check to the call of the synthesizer
GenMain ==
  /\ prog = "generate_traces.main"
  /\ pc = "main"
  /\ IF Len(argv) < 1
       THEN \* lines 111-117
            /\ report' = report \cup {"usage"}
            /\ exit_code' = 1
            /\ pc' = "exited"
            /\ UNCHANGED <<tmplVars, error>>
       ELSE LET n == IF Len(argv) > 1 THEN PyInt(argv[2]) ELSE IntOk(DefaultNumTraces) IN
            IF ~n.ok
              THEN \* line 120 raises, nothing catches it
                   /\ error' = "ValueError"
                   /\ exit_code' = 1
                   /\ pc' = "exited"
                   /\ UNCHANGED <<tmplVars, report>>
              ELSE /\ num_traces' = n.value
                   /\ IF argv[1] \notin PatternNames
                        THEN \* lines 124-127
                             /\ report' = report \cup {"unknown pattern"}
                             /\ exit_code' = 1
                             /\ pc' = "exited"
                             /\ UNCHANGED <<services, calls, error>>
                        ELSE /\ services' = CommonPatterns[argv[1]].services
                             /\ calls' = CommonPatterns[argv[1]].calls
                             /\ report' = report \cup {"generating"}
                             /\ pc' = "call"
                             /\ UNCHANGED <<error, exit_code>>
  /\ UNCHANGED <<prog, inVars, synthVars, expected, dci_df, anVars, merged, files>>

\* lines 139-143: the traces are dumped to traces_<pattern>.json
GenWrite ==
  /\ prog = "generate_traces.main"
  /\ pc = "write"
  /\ files' = files \cup { [name |-> TraceFile(argv[1]), content |-> traces] }
  /\ report' = report \cup {"generated"}
  /\ pc' = "estimate"
  /\ UNCHANGED <<prog, inVars, tmplVars, synthVars, expected, dci_df, anVars,
                 merged, error, exit_code>>

\* ===================================================== validate_rmt_dci.main

NotATable(src) == src.kind \in {"missing", "unreadable"}

\* load_dci_results returns None: read_csv raised, or line 18 found no DCI column
LoadFails(src) == NotATable(src) \/ "DCI" \notin src.cols

\* lines 107-126: the argument check and load_dci_results
ValMain ==
  /\ prog = "validate_rmt_dci.main"
  /\ pc = "main"
  /\ IF Len(argv) < 1
       THEN \* lines 113-118: usage, return
            /\ report' = report \cup {"usage"}
            /\ exit_code' = 0
            /\ pc' = "exited"
            /\ UNCHANGED dci_df
       ELSE IF LoadFails(dci_src)
              THEN \* lines 20-22 and 125-126: the error is printed, main returns
                   /\ report' = report \cup {"error loading"}
                   /\ exit_code' = 0
                   /\ pc' = "exited"
                   /\ UNCHANGED dci_df
              ELSE /\ dci_df' = dci_src
                   /\ report' = report \cup {"loaded"}
                   /\ pc' = "analyze"
                   /\ UNCHANGED exit_code
  /\ UNCHANGED <<prog, inVars, tmplVars, synthVars, expected, anVars, merged,
                 files, error>>

\* line 73: abs(merged['DCI'] - merged['MCI_Afferent'])
AbsDiff(a, b) == IF a >= b THEN a - b ELSE b - a

JoinRow(l, r) ==
  [ Service |-> l.Service, DCI |-> l.DCI, Status |-> l.Status,
    MCI_Afferent |-> r.MCI_Afferent ]

\* the rows of the right table matching one left row, in the right table's order
MatchesOf(l, right) ==
  LET hit(r) == r.Service = l.Service
      rs == SelectSeq(right, hit)
  IN  [ k \in DOMAIN rs |-> JoinRow(l, rs[k]) ]

RECURSIVE MergeInner(_, _)
\* the tables put side by side, row k with row k
MergeByPosition(left, right) ==
  [ k \in 1 .. (IF Len(left) < Len(right) THEN Len(left) ELSE Len(right)) |->
      JoinRow(left[k], right[k]) ]

\* line 65: pd.merge(dci_df, mci_df, on='Service', how='inner')
MergeInner(left, right) ==
  IF left = <<>> THEN <<>>
  ELSE MatchesOf(left[1], right) \o MergeInner(Tail(left), right)

\* line 73: the Difference column
WithDifference(rows) ==
  [ k \in DOMAIN rows |->
      [ Service |-> rows[k].Service, DCI |-> rows[k].DCI, Status |-> rows[k].Status,
        MCI_Afferent |-> rows[k].MCI_Afferent,
        Difference |-> AbsDiff(rows[k].DCI, rows[k].MCI_Afferent) ] ]

\* lines 55-92 and 135-138: compare_with_mci(dci_df, mci_file), then main ends
Compare ==
  /\ prog = "validate_rmt_dci.main"
  /\ pc = "compare"
  /\ IF mci_src.kind = "missing"
       THEN \* lines 88-90
            /\ report' = report \cup {"no MCI file"}
            /\ merged' = NoFrame
       ELSE IF \/ mci_src.kind = "unreadable"
               \/ "Service" \notin dci_df.cols
               \/ "Service" \notin mci_src.cols
              THEN \* read_csv or merge raised: lines 86-87
                   /\ report' = report \cup {"error comparing"}
                   /\ merged' = NoFrame
              ELSE LET m == MergeInner(dci_df.rows, mci_src.rows) IN
                   IF Len(m) > 0
                     THEN IF "MCI_Afferent" \notin mci_src.cols
                            THEN \* line 69 raised: lines 86-87
                                 /\ report' = report \cup {"error comparing"}
                                 /\ merged' = NoFrame
                            ELSE /\ report' = report \cup {"correlation"}
                                 /\ merged' = [kind |-> "frame", rows |-> WithDifference(m)]
                     ELSE \* line 84
                          /\ report' = report \cup {"no matching services"}
                          /\ merged' = NoFrame
  /\ exit_code' = 0
  /\ pc' = "exited"
  /\ UNCHANGED <<prog, inVars, tmplVars, synthVars, expected, dci_df, anVars,
                 files, error>>

TemplateFile == "mci_comparison_template.csv"

\* lines 98-101: template_df
TemplateRows(rows) ==
  [ k \in DOMAIN rows |->
      [ Service |-> rows[k].Service, DCI |-> rows[k].DCI,
        MCI_Afferent |-> "", MCI_Efferent |-> "", Notes |-> "" ] ]

\* line 98 raises KeyError when the table has no Service column
TemplateKeyError(df) == "Service" \notin df.cols

\* the file written before the columns are selected
TemplateFilesWriteFirst(fs, df) ==
  fs \cup { [name |-> TemplateFile, content |-> TemplateRows(df.rows)] }

\* the files on disk when create_comparison_template is left: line 98 raises
\* before line 103 writes
TemplateFiles(fs, df) ==
  IF TemplateKeyError(df) THEN fs
  ELSE fs \cup { [name |-> TemplateFile, content |-> TemplateRows(df.rows)] }

\* lines 94-105 and 134-138: create_comparison_template(dci_df), then main ends
Template ==
  /\ prog = "validate_rmt_dci.main"
  /\ pc = "template"
  /\ files' = TemplateFiles(files, dci_df)
  /\ IF TemplateKeyError(dci_df)
       THEN /\ error' = "KeyError"
            /\ exit_code' = 1
            /\ UNCHANGED report
       ELSE /\ report' = report \cup {"template created"}
            /\ exit_code' = 0
            /\ UNCHANGED error
  /\ pc' = "exited"
  /\ UNCHANGED <<prog, inVars, tmplVars, synthVars, expected, dci_df, anVars, merged>>

\* ------------------------------------------------ inputs of the program runs

CountArgs == { Str(n) : n \in 0 .. MainTraces } \cup { <<"-", "1">>, <<"x">> }

\* a known pattern always comes with a count: the default count of 100 traces
\* is not explored
GenArgs ==
  { NoArgs }
    \cup { <<n, c>> : n \in PatternNames \cup {"no_such_pattern"}, c \in CountArgs }
    \cup { <<"no_such_pattern">> }

DciRowPool ==
  { [Service |-> "svcA", DCI |-> 80, Status |-> "High"],
    [Service |-> "svcB", DCI |-> 10, Status |-> "Low"],
    [Service |-> "svcC", DCI |-> 0, Status |-> "No"],
    [Service |-> "svcA", DCI |-> 50, Status |-> "Moderate"],
    [Service |-> "svcB", DCI |-> 75, Status |-> "High"] }

MciRowPool ==
  { [Service |-> "svcA", MCI_Afferent |-> 75],
    [Service |-> "svcC", MCI_Afferent |-> 20],
    [Service |-> "svcB", MCI_Afferent |-> 45],
    [Service |-> "svcD", MCI_Afferent |-> 90] }

\* a table lists a service once
UniqueServices(rows) ==
  \A i, j \in DOMAIN rows : rows[i].Service = rows[j].Service => i = j

RowSeqs(pool) == { rows \in SeqsUpTo(pool, MaxRows) : UniqueServices(rows) }

DciSources ==
  { NoTable("missing"), NoTable("unreadable") }
    \cup { Table(cols, rows) :
             cols \in { AllColumns } \cup { AllColumns \ {c} : c \in AllColumns },
             rows \in RowSeqs(DciRowPool) }

MciSources ==
  { NoTable("missing"), NoTable("unreadable") }
    \cup { Table(cols, rows) :
             cols \in { {"Service", "MCI_Afferent"}, {"Service"}, {"MCI_Afferent"} },
             rows \in RowSeqs(MciRowPool) }

InitGen ==
  /\ prog = "generate_traces.main"
  /\ pc = "main"
  /\ argv \in GenArgs
  /\ dci_src = NoTable("missing")
  /\ mci_src = NoTable("missing")
  /\ services = <<>>
  /\ calls = <<>>
  /\ num_traces = 0
  /\ dci_df = NoTable("None")
  /\ Untouched

InitVal ==
  /\ prog = "validate_rmt_dci.main"
  /\ pc = "main"
  /\ \/ /\ argv = NoArgs
        /\ dci_src = NoTable("missing")
        /\ mci_src = NoTable("missing")
     \/ /\ argv = <<"dci.csv">>
        /\ dci_src \in DciSources
        /\ mci_src = NoTable("missing")
     \/ /\ argv = <<"dci.csv", "mci.csv">>
        /\ dci_src \in DciSources
        /\ mci_src \in MciSources
  /\ services = <<>>
  /\ calls = <<>>
  /\ num_traces = 0
  /\ dci_df = NoTable("None")
  /\ Untouched

Init == InitGen \/ InitVal

Next ==
  \/ GenMain
  \/ SynthEnter
  \/ SynthIterate
  \/ SynthReturn
  \/ GenWrite
  \/ Estimate
  \/ ValMain
  \/ Analyze
  \/ Compare
  \/ Template

Spec == Init /\ [][Next]_vars

\* ================================================================== claims

Last(s) == s[Len(s)]

\* the weight accumulated up to and including pattern i
CumFreq(cp, i) == SumFreq(SubSeq(cp, 1, i))

\* the patterns whose accumulated weight is >= the draw
Reaching(cp, rv) == { i \in DOMAIN cp : rv <= DrawsPerUnit * CumFreq(cp, i) }

Min(S) == CHOOSE x \in S : \A y \in S : x <= y

\* the value a string of decimal digits denotes
RECURSIVE DecimalValue(_)
DecimalValue(str) ==
  IF str = <<>> THEN 0
  ELSE 10 * DecimalValue(SubSeq(str, 1, Len(str) - 1))
       + ((CHOOSE k \in DOMAIN DigitChars : DigitChars[k] = Last(str)) - 1)

IsDecimal(str) ==
  /\ str # <<>>
  /\ \A k \in DOMAIN str : str[k] \in Range(DigitChars)
  /\ (Len(str) > 1 => str[1] # "0")

\* C1: for a template of total weight > 0 and a count N >= 0 the synthesizer
\* returns exactly N records, and the caller and the callee of every record
\* are services of the template.
C1_ExactlyNRecordsOverServices ==
  (prog = "generate_microservice_traces" /\ pc = "returned" /\ SumFreq(calls) > 0) =>
    /\ Len(traces) = num_traces
    /\ \A i \in DOMAIN traces :
         /\ traces[i].localEndpoint.serviceName \in Range(services)
         /\ traces[i].remoteEndpoint.serviceName \in Range(services)

C1_Witness ==
  /\ prog = "generate_microservice_traces"
  /\ pc = "returned"
  /\ SumFreq(calls) > 0
  /\ num_traces = MaxTraces
  /\ Len(traces) = num_traces
  /\ traces[1].remoteEndpoint.serviceName # traces[2].remoteEndpoint.serviceName

\* C2: the record of an iteration is built from the first pattern, in declared
\* order, whose accumulated weight is >= the draw; a draw past the last
\* cumulative boundary leaves the loop at the last pattern, without an error.
C2_FirstPatternReachingDraw ==
  /\ (rand_val >= 0 /\ calls # <<>>) =>
       LET want == calls[Min(Reaching(calls, rand_val))] IN
         /\ error = "none"
         /\ traces # <<>>
         /\ Last(traces).localEndpoint.serviceName = want.caller
         /\ Last(traces).remoteEndpoint.serviceName = want.callee
  /\ (calls # <<>> /\ pc = "loop" /\ traces = <<>>) =>
       \A rv \in 0 .. (DrawsPerUnit * (SumFreq(calls) + 1)) :
         WalkPatterns(calls, 1, 0, rv) =
           IF Reaching(calls, rv) # {} THEN Min(Reaching(calls, rv)) ELSE Len(calls)

\* a draw exactly on the second cumulative boundary selected the second pattern
C2_Witness ==
  /\ Len(calls) >= 3
  /\ rand_val = DrawsPerUnit * CumFreq(calls, 2)
  /\ traces # <<>>
  /\ Last(traces).localEndpoint.serviceName = calls[2].caller
  /\ Last(traces).remoteEndpoint.serviceName = calls[2].callee
  /\ calls[2].callee # calls[3].callee
  /\ calls[2].callee # calls[1].callee

\* C3: the i-th record carries the decimal string of i as traceId and as id,
\* so identifiers start at 1, grow by 1 and are pairwise different.
C3_TraceIdsCountFromOne ==
  /\ \A i \in DOMAIN traces :
       /\ traces[i].id = traces[i].traceId
       /\ IsDecimal(traces[i].traceId)
       /\ DecimalValue(traces[i].traceId) = i
  /\ \A i, j \in DOMAIN traces : i # j => traces[i].traceId # traces[j].traceId

C3_Witness ==
  /\ pc = "returned"
  /\ Len(traces) > 10
  /\ traces[10].traceId = <<"1", "0">>

\* C4: with an empty call_patterns the synthesizer fails with ConfigError for
\* every requested count.
C4_EmptyPatternsRaiseConfigError ==
  (prog = "generate_microservice_traces" /\ calls = <<>> /\ pc \in {"returned", "raised"}) =>
    (pc = "raised" /\ error = "ConfigError")

Swap(cp, i, j) == [cp EXCEPT ![i] = cp[j], ![j] = cp[i]]

\* the call patterns reordered, with an edge repeated, with a weight changed
Variants(cp) ==
  { Swap(cp, i, j) : i \in DOMAIN cp, j \in DOMAIN cp }
    \cup { Append(cp, cp[i]) : i \in DOMAIN cp }
    \cup { <<cp[i], cp[i]>> \o cp : i \in DOMAIN cp }
    \cup { [cp EXCEPT ![i].freq = w] : i \in DOMAIN cp, w \in Weights }
    \cup { [cp EXCEPT ![i].freq = @ + 7] : i \in DOMAIN cp }

FracEq(a, b) == a.num * b.den = b.num * a.den

\* C5: expectedDci(S) is the number of distinct callees of S over
\* (|services| - 1), and 0 when |services| - 1 is not > 0; reordering the call
\* patterns, repeating an edge or changing a weight does not change it.
C5_ExpectedDciDistinctCallees ==
  pc = "estimated" =>
    /\ \A s \in Range(services) :
         LET callees == { calls[i].callee : i \in { k \in DOMAIN calls : calls[k].caller = s } }
         IN  IF Len(services) - 1 > 0
               THEN FracEq(expected[s].dci, [num |-> Cardinality(callees), den |-> Len(services) - 1])
               ELSE expected[s].dci.num = 0
    /\ \A v \in Variants(calls) : ExpectedDci(services, v) = expected

\* a repeated edge next to a second callee of the same caller
C5_Witness ==
  /\ pc = "estimated"
  /\ Len(services) = 3
  /\ Len(calls) = 3
  /\ calls[1] = calls[3]
  /\ calls[2].caller = calls[1].caller
  /\ calls[2].callee # calls[1].callee
  /\ expected[calls[1].caller].dci = [num |-> 2, den |-> 2]

\* C6: an expected DCI is High from 0.7, Moderate from 0.4 below 0.7, Low above
\* 0 below 0.4 and No at 0; the analyzer lists as high coupling the rows from
\* 0.7 and as isolated the rows at exactly 0; simple_chain gives 1/3 (Low) for
\* frontend, api-gateway and user-service and 0 (No) for database.
C6_StatusThresholds ==
  /\ pc = "estimated" =>
       \A s \in Range(services) :
         LET d == expected[s].dci
             st == expected[s].status
         IN  /\ st \in Statuses
             /\ (st = "High") <=> (10 * d.num >= 7 * d.den)
             /\ (st = "Moderate") <=> (10 * d.num >= 4 * d.den /\ 10 * d.num < 7 * d.den)
             /\ (st = "Low") <=> (d.num > 0 /\ 10 * d.num < 4 * d.den)
             /\ (st = "No") <=> (d.num = 0)
  /\ (prog = "analyze_dci_results" /\ pc = "returned") =>
       /\ \A r \in Range(dci_df.rows) :
            /\ (r \in Range(high_coupling)) <=> (10 * r.DCI >= 7 * 100)
            /\ (r \in Range(isolated)) <=> (r.DCI = 0)
       /\ Len(high_coupling) = Cardinality(Range(high_coupling))
       /\ Len(isolated) = Cardinality(Range(isolated))
  /\ (pc = "estimated" /\ services = CommonPatterns.simple_chain.services
        /\ calls = CommonPatterns.simple_chain.calls) =>
       /\ \A s \in {"frontend", "api-gateway", "user-service"} :
            /\ FracEq(expected[s].dci, [num |-> 1, den |-> 3])
            /\ expected[s].status = "Low"
       /\ FracEq(expected["database"].dci, [num |-> 0, den |-> 3])
       /\ expected["database"].status = "No"

\* a service exactly on the 0.7 boundary, classified High
C6_Witness ==
  /\ pc = "estimated"
  /\ \E s \in Range(services) :
       /\ 10 * expected[s].dci.num = 7 * expected[s].dci.den
       /\ expected[s].status = "High"

RowsWithStatus(rows, st) == { i \in DOMAIN rows : rows[i].Status = st }

\* C7 as stated: the status distribution has an entry for each of the four
\* statuses, 0 for a status no row carries, each the number of rows with it.
C7_AllFourStatusesCounted ==
  (prog = "analyze_dci_results" /\ pc = "returned") =>
    /\ DOMAIN status_counts = Statuses
    /\ \A st \in Statuses :
         status_counts[st] = Cardinality(RowsWithStatus(dci_df.rows, st))

\* C7 amended: the status distribution has an entry for exactly the statuses
\* that at least one row carries, each the number of rows with that status; a
\* status no row carries has no entry.
C7_PresentStatusesCounted ==
  (prog = "analyze_dci_results" /\ pc = "returned") =>
    /\ DOMAIN status_counts = { st \in Statuses : RowsWithStatus(dci_df.rows, st) # {} }
    /\ \A st \in DOMAIN status_counts :
         status_counts[st] = Cardinality(RowsWithStatus(dci_df.rows, st))

C7_Witness ==
  /\ prog = "analyze_dci_results"
  /\ pc = "returned"
  /\ Len(dci_df.rows) = 2
  /\ DOMAIN status_counts = {"Low"}
  /\ status_counts["Low"] = 2

\* the comparison ran: the DCI table was loaded and analyzed, an MCI file was named
Compared ==
  /\ prog = "validate_rmt_dci.main"
  /\ pc = "exited"
  /\ Len(argv) > 1
  /\ dci_df.kind = "table"
  /\ error = "none"

\* both tables could be read and joined on Service
Joinable ==
  /\ mci_src.kind = "table"
  /\ "Service" \in dci_df.cols
  /\ "Service" \in mci_src.cols

ServicesOf(rows) == { rows[i].Service : i \in DOMAIN rows }

RowOf(rows, svc) == rows[CHOOSE i \in DOMAIN rows : rows[i].Service = svc]

\* C8: the join yields one ComparisonRow for exactly the services that are in
\* the DCI table and in the reference table, each with difference =
\* |dci - mciAfferent|; when no row survives the join this is reported and the
\* run does not fail.
C8_InnerJoinOnService ==
  (Compared /\ Joinable) =>
    LET common == ServicesOf(dci_df.rows) \cap ServicesOf(mci_src.rows) IN
      /\ (common # {} /\ "MCI_Afferent" \in mci_src.cols) =>
           /\ merged.kind = "frame"
           /\ ServicesOf(merged.rows) = common
           /\ Len(merged.rows) = Cardinality(common)
           /\ \A k \in DOMAIN merged.rows :
                LET m == merged.rows[k]
                    d == RowOf(dci_df.rows, m.Service).DCI
                    a == RowOf(mci_src.rows, m.Service).MCI_Afferent
                IN  /\ m.DCI = d
                    /\ m.MCI_Afferent = a
                    /\ m.Difference >= 0
                    /\ (m.Difference = d - a \/ m.Difference = a - d)
      /\ common = {} =>
           /\ merged = NoFrame
           /\ "no matching services" \in report
           /\ "error comparing" \notin report
           /\ exit_code = 0

\* the scenario of the join: svcA 0.8, svcB 0.1 against svcA 0.75, svcC 0.2
C8_Witness ==
  /\ Compared
  /\ Joinable
  /\ [ k \in DOMAIN dci_df.rows |-> <<dci_df.rows[k].Service, dci_df.rows[k].DCI>> ]
       = << <<"svcA", 80>>, <<"svcB", 10>> >>
  /\ [ k \in DOMAIN mci_src.rows |-> <<mci_src.rows[k].Service, mci_src.rows[k].MCI_Afferent>> ]
       = << <<"svcA", 75>>, <<"svcC", 20>> >>
  /\ merged.kind = "frame"
  /\ Len(merged.rows) = 1
  /\ merged.rows[1].Service = "svcA"
  /\ merged.rows[1].Difference = 5

\* the required input file is missing or cannot be read as the table needed,
\* or the pattern name is unknown
InputFailure ==
  \/ /\ prog = "validate_rmt_dci.main"
     /\ Len(argv) >= 1
     /\ (dci_src.kind \in {"missing", "unreadable"} \/ "DCI" \notin dci_src.cols)
  \/ /\ prog = "generate_traces.main"
     /\ Len(argv) >= 1
     /\ argv[1] \notin PatternNames

\* the run went through every step without an error or a usage message
CleanRun ==
  /\ error = "none"
  /\ report \cap {"usage", "error loading", "unknown pattern"} = {}

\* C9: a run ends with a non-zero exit status when the required input file is
\* missing, the pattern name is unknown or the input table is unreadable, and
\* with status zero when it went through without such a failure.
C9_ExitStatusTellsFailure ==
  pc = "exited" =>
    /\ InputFailure => exit_code # 0
    /\ (~InputFailure /\ CleanRun) => exit_code = 0

\* the run ended in a failure: an exception, or an error that was reported
RunFailed ==
  /\ pc = "exited"
  /\ \/ error # "none"
     \/ exit_code # 0
     \/ report \cap {"usage", "error loading", "unknown pattern", "error comparing"} # {}

\* C10: a run that ends in a failure has written no output file, and once a
\* file is written the run does not fail any more.
C10_WriteAfterSuccessOnly ==
  /\ RunFailed => files = {}
  /\ files # {} =>
       /\ error = "none"
       /\ exit_code \in {-1, 0}
       /\ pc \in {"estimate", "exited"}

\* the template was due, and its making failed before the write
C10_Witness ==
  /\ RunFailed
  /\ prog = "validate_rmt_dci.main"
  /\ Len(argv) = 1
  /\ dci_df.kind = "table"
  /\ status_counts # <<>>
  /\ error = "KeyError"
  /\ files = {}

====
